---- MODULE Spec2Model ----
(***************************************************************************)
(* x402 facilitator: the /verify, /settle and /supported handlers of       *)
(* packages/facilitator, the ledgers they talk to and the configuration    *)
(* they read.                                                              *)
(*                                                                         *)
(* Strings the handlers build (invalidReason, errorReason) are modelled as *)
(* the sequence of their words, wrapped by Text; a substring test of the   *)
(* tests ("toContain('scheme')") is the test that the word occurs.         *)
(* Signatures are ideal: a signature value records who signed what, and    *)
(* the library verifiers accept exactly the signatures whose signer and    *)
(* signed content equal what the handler reconstructs.                     *)
(***************************************************************************)
EXTENDS Integers, Sequences, FiniteSets, TLC

\* ------------------------------------------------------------------ bounds
\* Largest amount a proof or a requirement names (minor units, 1..MaxAmount).
MaxAmount == 2
\* Latest deadline a proof names; the clock runs over 0..MaxDeadline+1.
MaxDeadline == 1
\* What the funded payer holds (and has delegated) on every ledger at start.
InitBalance == 2
\* How many /settle requests overlap.
MaxConcurrent == 2

\* ------------------------------------------------------- program constants
RadiusChainId == 1223953
BaseMainnetChainId == 8453
BaseSepoliaChainId == 84532

\* ----------------------------------------------------------------- strings
\* A JS string as the sequence of its words; JSON null.
Text(words) == [text |-> words]
JsNull == [null |-> TRUE]
IsText(v) == "text" \in DOMAIN v
\* String.prototype.includes / jest toContain, for a whole word.
Contains(v, w) == IsText(v) /\ \E i \in DOMAIN v.text : v.text[i] = w

\* --------------------------------------------------------------- addresses
PayerAddr == "0xPayer"
MalloryAddr == "0xMallory"
MerchantAddr == "0xMerchant"
MerchantAddrLc == "0xmerchant"
FacilitatorAddr == "0xFacilitator"
Addresses == {PayerAddr, MalloryAddr, MerchantAddr, MerchantAddrLc, FacilitatorAddr}

\* String.prototype.toLowerCase on the addresses of the model.
Lower(a) ==
  CASE a = PayerAddr -> "0xpayer"
    [] a = MalloryAddr -> "0xmallory"
    [] a = MerchantAddr -> MerchantAddrLc
    [] a = FacilitatorAddr -> "0xfacilitator"
    [] OTHER -> a

\* ---------------------------------------------------------------- networks
NetworkNames == {"radius-testnet", "base", "base-sepolia", "solana-mainnet-beta"}
ChainIdNames == {"1223953", "8453", "84532"}
Networks == NetworkNames \cup ChainIdNames \cup {"unsupported-network"}

\* The chains that exist; each holds balances and delegations.
Ledgers == {"radius", "base", "base-sepolia", "solana"}


\* config.ts: the exported object, one field per environment variable read.
\* radius, base, solana say how much of each family the environment sets:
\* "none", "partial" (the signing key but not the address /supported also
\* asks for) or "full". real is ENABLE_REAL_SETTLEMENT === 'true'.
MkConfig(radius, base, solana, chainId, real) ==
  [ radiusRpcUrl                |-> IF radius = "none" THEN "" ELSE "https://rpc.radius",
    radiusFacilitatorPrivateKey |-> IF radius = "none" THEN "" ELSE "radius-private-key",
    radiusFacilitatorAddress    |-> IF radius = "none" THEN "" ELSE FacilitatorAddr,
    radiusMerchantAddress       |-> IF radius = "full" THEN MerchantAddr ELSE "",
    radiusChainId               |-> RadiusChainId,
    baseFacilitatorPrivateKey   |-> IF base = "none" THEN "" ELSE "base-private-key",
    baseFacilitatorAddress      |-> IF base = "full" THEN FacilitatorAddr ELSE "",
    baseChainId                 |-> chainId,
    solanaFacilitatorPrivateKey |-> IF solana = "full" THEN "solana-private-key" ELSE "",
    solanaFacilitatorAddress    |-> IF solana = "none" THEN "" ELSE FacilitatorAddr,
    realSettlement              |-> real ]

\* config.ts: the two checks that make loading the configuration throw.
ConfigLoads(c) ==
  /\ ~(c.radiusRpcUrl # "" /\ c.radiusFacilitatorPrivateKey = "")
  /\ ~(c.solanaFacilitatorPrivateKey # "" /\ c.solanaFacilitatorAddress = "")

\* The environments explored.
ConfigChoices ==
  { <<"full", "full", "full", BaseMainnetChainId, TRUE>>,
    <<"full", "full", "full", BaseSepoliaChainId, TRUE>>,
    <<"full", "full", "full", BaseMainnetChainId, FALSE>>,
    <<"none", "none", "none", BaseMainnetChainId, TRUE>>,
    <<"none", "none", "none", BaseMainnetChainId, FALSE>>,
    <<"partial", "partial", "partial", BaseMainnetChainId, TRUE>> }

Configs ==
  { c \in { MkConfig(t[1], t[2], t[3], t[4], t[5]) : t \in ConfigChoices } : ConfigLoads(c) }

\* ----------------------------------------------------------- authorizations
\* What a payload carries as signature or signedTransaction. kind is
\*   "eip712"  a typed-data signature by signer over the Payment message
\*             (from, to, amount, nonce, deadline) under the domain
\*             (verifyingContract vc, chainId);
\*   "ed25519" a detached signature by signer over the pipe-delimited message;
\*   "tx"      a serialized native transfer signed by signer: to, amount
\*             (its value), chainId, nonce (the signer's account nonce);
\*   "garbage" bytes that are none of these; "none" the field is absent.
Auth(kind, signer, vc, chainId, from, to, amount, nonce, deadline) ==
  [ kind |-> kind, signer |-> signer, vc |-> vc, chainId |-> chainId, from |-> from,
    to |-> to, amount |-> amount, nonce |-> nonce, deadline |-> deadline ]
NoAuth == Auth("none", "", "", 0, "", "", 0, 0, 0)
Garbage == Auth("garbage", "", "", 0, "", "", 0, 0, 0)

\* verify.ts: getDomain.
getDomain(verifyingContract, chainId) ==
  [ name |-> "SBC x402 Facilitator", version |-> "1", chainId |-> chainId,
    verifyingContract |-> verifyingContract ]

\* A typed-data check that does not look at the domain's verifyingContract.
verifyTypedDataAnyContract(address, domain, message, signature) ==
  IF signature.kind # "eip712" \/ domain.verifyingContract = "" THEN "throws"
  ELSE IF /\ Lower(signature.signer) = Lower(address)
          /\ signature.chainId = domain.chainId
          /\ Lower(signature.from) = Lower(message.from)
          /\ Lower(signature.to) = Lower(message.to)
          /\ signature.amount = message.amount
          /\ signature.nonce = message.nonce
          /\ signature.deadline = message.deadline
       THEN "true" ELSE "false"

\* viem verifyTypedData({address, domain, types, primaryType, message,
\* signature}): "throws" on a signature or an address it cannot parse, else
\* whether the signature is address's over exactly this domain and message.
\* Addresses are 20-byte values: their case does not matter.
verifyTypedData(address, domain, message, signature) ==
  IF signature.kind # "eip712" \/ domain.verifyingContract = "" THEN "throws"
  ELSE IF /\ Lower(signature.signer) = Lower(address)
          /\ Lower(signature.vc) = Lower(domain.verifyingContract)
          /\ signature.chainId = domain.chainId
          /\ Lower(signature.from) = Lower(message.from)
          /\ Lower(signature.to) = Lower(message.to)
          /\ signature.amount = message.amount
          /\ signature.nonce = message.nonce
          /\ signature.deadline = message.deadline
       THEN "true" ELSE "false"

\* solana/verify.ts: constructMessage. The string
\* from:{from}|to:{to}|amount:{amount}|nonce:{nonce}|deadline:{deadline}
\* as the tuple of what it interpolates.
constructMessage(data) == <<data.from, data.to, data.amount, data.nonce, data.deadline>>

\* bs58.decode and nacl.sign.detached.verify(message, signature, publicKey):
\* "throws" when the signature is not 64 base58-encoded bytes, else whether
\* it is publicKey's signature over message. Base58 keys are case-sensitive.
naclVerify(message, signature, publicKey) ==
  IF signature.kind # "ed25519" THEN "throws"
  ELSE IF /\ signature.signer = publicKey
          /\ <<signature.from, signature.to, signature.amount, signature.nonce,
               signature.deadline>> = message
       THEN "true" ELSE "false"

\* viem parseTransaction: "throws" unless the bytes are a serialized
\* transaction; it reads the fields and recovers no signer.
parseTransaction(signedTransaction) ==
  IF signedTransaction.kind # "tx" THEN [throws |-> TRUE]
  ELSE [ throws |-> FALSE, to |-> signedTransaction.to, value |-> signedTransaction.amount,
         chainId |-> signedTransaction.chainId ]

\* ------------------------------------------------------------------ ledgers
\* The account an address names: EVM addresses are case-insensitive,
\* base58 keys are not.
AccountOf(ledger, address) == IF ledger = "solana" THEN address ELSE Lower(address)
Accounts == Addresses \cup { Lower(a) : a \in Addresses }

\* A recipient that is no address (the one the settle tests use), and the
\* validity tests of the libraries: viem isAddress, which the ABI encoder of
\* writeContract applies to an address argument, and new PublicKey(value) of
\* @solana/web3.js, which throws on a value that is no 32-byte base58 key.
InvalidAddr == "0xInvalidRecipient00000000000000000000"
isAddress(address) == address \in Accounts
IsPublicKey(value) == value \in Addresses

\* The chain a network name of a proof is served from (the chain object and
\* RPC URL verify.ts and settle.ts select).
LedgerOf(network) ==
  CASE network \in {"radius-testnet", "1223953"} -> "radius"
    [] network \in {"base", "8453"} -> "base"
    [] network \in {"base-sepolia", "84532"} -> "base-sepolia"
    [] network = "solana-mainnet-beta" -> "solana"
    [] OTHER -> "none"

\* ------------------------------------------------------------ request parts
\* An absent JSON member: the object has no such field.
Has(obj, f) == f \in DOMAIN obj

\* paymentData.payload?.from || 'unknown'
PayloadFrom(paymentData) ==
  IF Has(paymentData, "payload") /\ Has(paymentData.payload, "from")
  THEN paymentData.payload.from ELSE "unknown"

\* `${paymentData.scheme}`, `${paymentData.network}`
Interpolate(obj, f) == IF Has(obj, f) THEN obj[f] ELSE "undefined"

\* JSON.parse(Buffer.from(paymentHeader, 'base64').toString()): the header
\* of a request either decodes to a JSON value or makes JSON.parse throw.
DecodeThrows(paymentHeader) == ~paymentHeader.decodable

\* error.message of that throw: Buffer.from(undefined, 'base64') for a body
\* without paymentHeader, JSON.parse for bytes that are not JSON.
DecodeError(paymentHeader) ==
  IF Has(paymentHeader, "missing")
  THEN <<"The", "first", "argument", "must", "be", "of", "type", "string">>
  ELSE <<"Unexpected", "token", "in", "JSON">>

\* The scheme test written as a truthiness test: any scheme passes.
IsAnyScheme(paymentData) == Has(paymentData, "scheme")

\* paymentData.scheme !== 'exact', negated: the test both handlers start with.
IsExactScheme(paymentData) == Has(paymentData, "scheme") /\ paymentData.scheme = "exact"

\* What a handler did besides answering: the adapter it dispatched to, the
\* signing keys it loaded, the RPC requests it made, the transaction it
\* submitted.
NoTx == [ submitted |-> FALSE ]
Eff(routed, keys, rpc, tx) == [ routed |-> routed, keys |-> keys, rpc |-> rpc, tx |-> tx ]
NoEff == Eff("none", {}, {}, NoTx)

\* ----------------------------------------------------------- /verify, Solana
\* solana/verify.ts: verifySolanaPayment. Returns the object it resolves to
\* and the RPC requests it made.
verifySolanaPayment(cfg, paymentPayload, paymentRequirements, t, balances, rpcOk) ==
  LET Out(isValid, reason, rpc) ==
        [ result |-> [ isValid |-> isValid, invalidReason |-> reason ], rpc |-> rpc ]
  IN
  IF ~(Has(paymentPayload, "from") /\ Has(paymentPayload, "deadline"))
  THEN Out(FALSE, Text(<<"Verification", "error", "Cannot", "destructure", "property",
                         "from", "of", "paymentPayload", "as", "it", "is", "undefined">>), {})
  ELSE
  LET from      == paymentPayload.from
      to        == paymentPayload.to
      amount    == paymentPayload.amount
      nonce     == paymentPayload.nonce
      deadline  == paymentPayload.deadline
      signature == paymentPayload.signature
      message   == constructMessage([ from |-> from, to |-> to, amount |-> amount,
                                      nonce |-> nonce, deadline |-> deadline ])
      isValidSig == naclVerify(message, signature, from)
  IN
  IF isValidSig = "false" THEN Out(FALSE, Text(<<"Invalid", "signature">>), {})
  ELSE IF isValidSig = "throws"
  THEN Out(FALSE, Text(<<"Signature", "verification", "failed">>), {})
  ELSE IF t > deadline THEN Out(FALSE, Text(<<"Payment", "expired">>), {})
  ELSE IF ~Has(paymentRequirements, "maxAmount")
  THEN Out(FALSE, Text(<<"Verification", "error", "Cannot", "convert", "undefined",
                         "to", "a", "BigInt">>), {})
  ELSE IF amount < paymentRequirements.maxAmount
  THEN Out(FALSE, Text(<<"Insufficient", "amount">>), {})
  ELSE IF ~Has(paymentRequirements, "recipientAddress")
  THEN Out(FALSE, Text(<<"Verification", "error", "Cannot", "read", "properties", "of",
                         "undefined", "reading", "toLowerCase">>), {})
  ELSE IF Lower(to) # Lower(paymentRequirements.recipientAddress)
  THEN Out(FALSE, Text(<<"Invalid", "recipient">>), {})
  ELSE IF ~rpcOk
  THEN Out(FALSE, Text(<<"Balance", "check", "failed", "fetch", "failed">>),
           {"getTokenAccountBalance"})
  ELSE IF balances["solana"][AccountOf("solana", from)] < amount
  THEN Out(FALSE, Text(<<"Insufficient", "SBC", "balance">>), {"getTokenAccountBalance"})
  ELSE Out(TRUE, JsNull, {"getTokenAccountBalance"})

\* ------------------------------------------------------------------ /verify
\* The HTTP answer of a handler and what it did.
Reply(status, body, eff) == [ status |-> status, body |-> body, eff |-> eff ]

\* verify.ts: the response of every rejection and of the acceptance.
VerifyBody(isValid, payer, reason) ==
  [ isValid |-> isValid, payer |-> payer, invalidReason |-> reason ]

\* verify.ts: the catch block of verifyPayment (the header is parsed again
\* for the payer).
VerifyCatch(body, message, eff) ==
  LET payer == IF DecodeThrows(body.paymentHeader) THEN "unknown"
               ELSE PayloadFrom(body.paymentHeader.json)
  IN Reply(500, VerifyBody(FALSE, payer, Text(<<"Server", "error">> \o message)), eff)

\* verify.ts: step 2 of verifyPayment, the authorization. "ok", or the
\* invalidReason of the rejection.
VerifyAuthorization(cfg, network, payload) ==
  LET isBaseSepolia == network \in {"base-sepolia", "84532"}
      isBaseMainnet == network \in {"base", "8453"}
      isRadius      == network \in {"radius-testnet", "1223953"}
      chainId == IF isBaseSepolia THEN BaseSepoliaChainId
                 ELSE IF isBaseMainnet THEN cfg.baseChainId ELSE cfg.radiusChainId
      facilitatorAddress == IF isBaseSepolia \/ isBaseMainnet
                            THEN cfg.baseFacilitatorAddress ELSE cfg.radiusFacilitatorAddress
      signedTransaction == IF Has(payload, "signedTransaction")
                           THEN payload.signedTransaction ELSE NoAuth
  IN
  IF isRadius /\ signedTransaction.kind # "none"
  THEN LET parsedTx == parseTransaction(signedTransaction) IN
       IF parsedTx.throws THEN Text(<<"Invalid", "signed", "transaction">>)
       ELSE IF Lower(parsedTx.to) # Lower(payload.to)
       THEN Text(<<"Transaction", "recipient", "does", "not", "match", "claimed", "recipient">>)
       ELSE IF parsedTx.value # payload.amount
       THEN Text(<<"Transaction", "amount", "does", "not", "match", "claimed", "amount">>)
       ELSE IF parsedTx.chainId # RadiusChainId
       THEN Text(<<"Transaction", "chain", "ID", "does", "not", "match", "Radius", "testnet">>)
       ELSE Text(<<"ok">>)
  ELSE LET domain  == getDomain(facilitatorAddress, chainId)
           message == [ from |-> payload.from, to |-> payload.to, amount |-> payload.amount,
                        nonce |-> payload.nonce, deadline |-> payload.deadline ]
           isValidSig == verifyTypedData(payload.from, domain, message, payload.signature)
       IN IF isValidSig = "false" THEN Text(<<"Invalid", "signature">>)
          ELSE IF isValidSig = "throws" THEN Text(<<"Signature", "verification", "failed">>)
          ELSE Text(<<"ok">>)

\* verify.ts: verifyPayment. body is req.body, t the clock the handler
\* reads, balances what the ledgers hold, rpcOk whether the RPC endpoint
\* answers.
verifyPayment(cfg, body, t, balances, rpcOk) ==
  IF DecodeThrows(body.paymentHeader)
  THEN VerifyCatch(body, DecodeError(body.paymentHeader), NoEff)
  ELSE
  LET paymentData == body.paymentHeader.json
      paymentRequirements == body.paymentRequirements
      network == Interpolate(paymentData, "network")
  IN
  IF ~IsExactScheme(paymentData)
  THEN Reply(200, VerifyBody(FALSE, PayloadFrom(paymentData),
                 Text(<<"Unsupported", "scheme", Interpolate(paymentData, "scheme")>>)), NoEff)
  ELSE IF network = "solana-mainnet-beta"
  THEN LET r == verifySolanaPayment(cfg,
                  IF Has(paymentData, "payload") THEN paymentData.payload ELSE << >>,
                  paymentRequirements, t, balances, rpcOk)
       IN Reply(200, r.result, Eff("solana", {}, r.rpc, NoTx))
  ELSE
  LET isBaseSepolia == network \in {"base-sepolia", "84532"}
      isBaseMainnet == network \in {"base", "8453"}
      isBase        == isBaseSepolia \/ isBaseMainnet
      isRadius      == network \in {"radius-testnet", "1223953"}
      evm           == Eff("evm", {}, {}, NoTx)
  IN
  IF ~isBase /\ ~isRadius
  THEN Reply(200, VerifyBody(FALSE, PayloadFrom(paymentData),
                 Text(<<"Unknown", "network", network>>)), NoEff)
  ELSE IF ~(Has(paymentData, "payload") /\ Has(paymentData.payload, "from"))
  THEN VerifyCatch(body, <<"Cannot", "destructure", "property", "from", "of",
                           "paymentData.payload", "as", "it", "is", "undefined">>, evm)
  ELSE
  LET payload  == paymentData.payload
      from     == payload.from
      to       == payload.to
      amount   == payload.amount
      deadline == payload.deadline
      auth     == VerifyAuthorization(cfg, network, payload)
      ledger   == LedgerOf(network)
      call     == IF isBase THEN "balanceOf" ELSE "getBalance"
  IN
  IF auth # Text(<<"ok">>) THEN Reply(200, VerifyBody(FALSE, from, auth), evm)
  ELSE IF t > deadline
  THEN Reply(200, VerifyBody(FALSE, from, Text(<<"Payment", "expired">>)), evm)
  ELSE IF amount < paymentRequirements.maxAmountRequired
  THEN Reply(200, VerifyBody(FALSE, from, Text(<<"Insufficient", "amount">>)), evm)
  ELSE IF Lower(to) # Lower(paymentRequirements.payTo)
  THEN Reply(200, VerifyBody(FALSE, from, Text(<<"Invalid", "recipient">>)), evm)
  ELSE IF ledger = "radius" /\ cfg.radiusRpcUrl = ""
  THEN VerifyCatch(body, <<"No", "URL", "was", "provided", "to", "the", "Transport">>, evm)
  ELSE IF ~rpcOk
  THEN VerifyCatch(body, <<"HTTP", "request", "failed">>, Eff("evm", {}, {call}, NoTx))
  ELSE IF balances[ledger][AccountOf(ledger, from)] < amount
  THEN Reply(200, VerifyBody(FALSE, from, Text(<<"Insufficient", "balance">>)),
             Eff("evm", {}, {call}, NoTx))
  ELSE Reply(200, VerifyBody(TRUE, from, JsNull), Eff("evm", {}, {call}, NoTx))

\* ------------------------------------------------------- ledger semantics
\* A ledger state: what every account holds on every chain, what every
\* owner has delegated to the facilitator on it (ERC-20 approve, SPL
\* approve), and how many transactions every account has sent on Radius.
Move(balances, ledger, src, dst, amount) ==
  IF src = dst THEN balances
  ELSE [ balances EXCEPT ![ledger] =
           [ @ EXCEPT ![src] = @ - amount, ![dst] = @ + amount ] ]

\* ERC-20 transferFrom / SPL Transfer with the facilitator as delegate:
\* executes iff owner holds amount and has delegated at least amount.
DelegatedTransferOk(ledgerState, ledger, owner, amount) ==
  /\ ledgerState.balances[ledger][owner] >= amount
  /\ ledgerState.allowance[ledger][owner] >= amount

DelegatedTransfer(ledgerState, ledger, owner, dst, amount) ==
  [ ledgerState EXCEPT
      !.balances = Move(@, ledger, owner, dst, amount),
      !.allowance = [ @ EXCEPT ![ledger] = [ @ EXCEPT ![owner] = @ - amount ] ] ]

\* eth_sendRawTransaction on Radius: a transaction is accepted iff it is one
\* of this chain, carries its signer's next account nonce and its signer
\* holds its value; it moves the value from its signer to its recipient.
RawTransactionOk(ledgerState, tx) ==
  /\ tx.kind = "tx"
  /\ tx.chainId = RadiusChainId
  /\ tx.nonce = ledgerState.txCount[Lower(tx.signer)]
  /\ ledgerState.balances["radius"][Lower(tx.signer)] >= tx.amount

RawTransaction(ledgerState, tx) ==
  [ ledgerState EXCEPT
      !.balances = Move(@, "radius", Lower(tx.signer), Lower(tx.to), tx.amount),
      !.txCount = [ @ EXCEPT ![Lower(tx.signer)] = @ + 1 ] ]

\* A transaction a handler submitted: the chain, the method, the key that
\* signed the submission ("" when the payer's own signature is the only
\* one), the account debited, the account credited, the amount, and
\* whether the chain executed it.
Tx(ledger, method, key, src, dst, amount, executed) ==
  [ submitted |-> TRUE, ledger |-> ledger, method |-> method, key |-> key, src |-> src,
    dst |-> dst, amount |-> amount, executed |-> executed ]

\* ------------------------------------------------------------------ /settle
\* The mode test with the comparison lost: every environment settles for real.
useRealSettlementAlways(cfg) == TRUE

\* settle.ts, solana/settle.ts: process.env.ENABLE_REAL_SETTLEMENT === 'true'.
useRealSettlement(cfg) == cfg.realSettlement

\* A transaction reference, by what tells one string from another without
\* asking a chain: its encoding and how many bytes it encodes.
HexString(bytes) == [ encoding |-> "0x hex", bytes |-> bytes ]
Base58String(bytes) == [ encoding |-> "base58", bytes |-> bytes ]

\* What the chains return: an EVM transaction hash is 32 bytes, a Solana
\* transaction signature 64.
TransactionHash == HexString(32)
TransactionSignature == Base58String(64)

\* settle.ts: `0x` and four times Math.random().toString(16).slice(2), the
\* hex digits of a fraction of 52 bits: at most 4 * 13 digits, 26 bytes.
SimulatedHash == HexString(26)

\* settle.ts, solana/settle.ts: the two response shapes.
\* A success that carries neither its transaction nor its network.
SettleOkUnnamed(payer, transaction, network) ==
  [ success |-> TRUE, payer |-> payer, transaction |-> Text(<< >>), network |-> "unknown" ]

SettleOk(payer, transaction, network) ==
  [ success |-> TRUE, payer |-> payer, transaction |-> transaction, network |-> network ]
SettleFail(payer, network, reason) ==
  [ success |-> FALSE, payer |-> payer, transaction |-> Text(<< >>), network |-> network,
    errorReason |-> reason ]

\* What a handler leaves behind: its answer and the ledgers after it.
Outcome(reply, ledgerState) == [ reply |-> reply, ledgerState |-> ledgerState ]

\* A catch block that answers without res.status(500).
SettleCatchOk(body, message, eff, ledgerState) ==
  LET readable == ~DecodeThrows(body.paymentHeader)
      payer    == IF readable THEN PayloadFrom(body.paymentHeader.json) ELSE "unknown"
      network  == IF readable /\ Has(body.paymentHeader.json, "network")
                  THEN body.paymentHeader.json.network ELSE "unknown"
  IN Outcome(Reply(200, SettleFail(payer, network, Text(message)), eff), ledgerState)

\* settle.ts: the catch block of settlePayment.
SettleCatch(body, message, eff, ledgerState) ==
  LET readable == ~DecodeThrows(body.paymentHeader)
      payer    == IF readable THEN PayloadFrom(body.paymentHeader.json) ELSE "unknown"
      network  == IF readable /\ Has(body.paymentHeader.json, "network")
                  THEN body.paymentHeader.json.network ELSE "unknown"
  IN Outcome(Reply(500, SettleFail(payer, network, Text(message)), eff), ledgerState)

\* solana/settle.ts: settleSolanaPayment, for a payload that is an object.
settleSolanaPayment(cfg, paymentPayload, ledgerState, rpcOk) ==
  LET from   == paymentPayload.from
      to     == paymentPayload.to
      amount == paymentPayload.amount
      net    == "solana-mainnet-beta"
      Fail(message, eff) == Outcome(Reply(200, SettleFail(from, net, Text(message)), eff),
                                    ledgerState)
      loaded == {cfg.solanaFacilitatorPrivateKey}
  IN
  IF cfg.solanaFacilitatorPrivateKey = ""
  THEN Fail(<<"SOLANA_FACILITATOR_PRIVATE_KEY", "not", "configured">>,
            Eff("solana", {}, {}, NoTx))
  ELSE IF ~IsPublicKey(from) \/ ~IsPublicKey(to)
  THEN Fail(<<"Invalid", "public", "key", "input">>, Eff("solana", loaded, {}, NoTx))
  ELSE IF ~useRealSettlement(cfg)
  THEN Outcome(Reply(200, SettleOk(from, Base58String(64), net),
                     Eff("solana", loaded, {}, NoTx)), ledgerState)
  ELSE IF ~rpcOk
  THEN Fail(<<"fetch", "failed">>, Eff("solana", loaded, {"getLatestBlockhash"}, NoTx))
  ELSE
  LET rpc == {"getLatestBlockhash", "sendAndConfirmTransaction"}
      tx(executed) == Tx("solana", "Transfer", cfg.solanaFacilitatorPrivateKey,
                         AccountOf("solana", from), AccountOf("solana", to), amount, executed)
  IN
  IF ~DelegatedTransferOk(ledgerState, "solana", AccountOf("solana", from), amount)
  THEN Fail(<<"Transaction", "simulation", "failed">>, Eff("solana", loaded, rpc, tx(FALSE)))
  ELSE Outcome(Reply(200, SettleOk(from, TransactionSignature, net),
                     Eff("solana", loaded, rpc, tx(TRUE))),
               DelegatedTransfer(ledgerState, "solana", AccountOf("solana", from),
                                 AccountOf("solana", to), amount))

\* settle.ts: settlePayment.
settlePayment(cfg, body, ledgerState, rpcOk) ==
  IF DecodeThrows(body.paymentHeader)
  THEN SettleCatch(body, DecodeError(body.paymentHeader), NoEff, ledgerState)
  ELSE
  LET paymentData == body.paymentHeader.json
      network == Interpolate(paymentData, "network")
      networkOrUnknown == IF Has(paymentData, "network") THEN paymentData.network
                          ELSE "unknown"
  IN
  IF ~IsExactScheme(paymentData)
  THEN Outcome(Reply(200, SettleFail(PayloadFrom(paymentData), networkOrUnknown,
                 Text(<<"Unsupported", "scheme", Interpolate(paymentData, "scheme")>>)), NoEff),
               ledgerState)
  ELSE IF network = "solana-mainnet-beta"
  THEN IF ~(Has(paymentData, "payload") /\ Has(paymentData.payload, "from"))
       THEN SettleCatch(body, <<"Cannot", "read", "properties", "of", "undefined",
                                "reading", "from">>, Eff("solana", {}, {}, NoTx), ledgerState)
       ELSE settleSolanaPayment(cfg, paymentData.payload, ledgerState, rpcOk)
  ELSE
  LET isBaseSepolia == network \in {"base-sepolia", "84532"}
      isBaseMainnet == network \in {"base", "8453"}
      isBase        == isBaseSepolia \/ isBaseMainnet
      isRadius      == network \in {"radius-testnet", "1223953"}
      evm           == Eff("evm", {}, {}, NoTx)
  IN
  IF ~isBase /\ ~isRadius
  THEN Outcome(Reply(200, SettleFail(PayloadFrom(paymentData), networkOrUnknown,
                 Text(<<"Unknown", "network", network>>)), NoEff), ledgerState)
  ELSE IF ~(Has(paymentData, "payload") /\ Has(paymentData.payload, "from"))
  THEN SettleCatch(body, <<"Cannot", "destructure", "property", "from", "of",
                           "paymentData.payload", "as", "it", "is", "undefined">>,
                   evm, ledgerState)
  ELSE
  LET payload    == paymentData.payload
      from       == payload.from
      to         == payload.to
      amount     == payload.amount
      ledger     == LedgerOf(network)
      privateKey == IF isBase THEN cfg.baseFacilitatorPrivateKey
                    ELSE cfg.radiusFacilitatorPrivateKey
      loaded     == {privateKey}
      signedTransaction == IF Has(payload, "signedTransaction")
                           THEN payload.signedTransaction ELSE NoAuth
  IN
  IF privateKey = ""
  THEN SettleCatch(body, <<"invalid", "private", "key", "expected", "hex", "or", "32",
                           "bytes", "got", "string">>, evm, ledgerState)
  ELSE IF ledger = "radius" /\ cfg.radiusRpcUrl = ""
  THEN SettleCatch(body, <<"No", "URL", "was", "provided", "to", "the", "Transport">>,
                   Eff("evm", loaded, {}, NoTx), ledgerState)
  ELSE IF ~useRealSettlement(cfg)
  THEN Outcome(Reply(200, SettleOk(from, SimulatedHash, paymentData.network),
                     Eff("evm", loaded, {}, NoTx)), ledgerState)
  ELSE IF isBase
  THEN IF ~isAddress(from) \/ ~isAddress(to)
       THEN SettleCatch(body, <<"Address", "is", "invalid">>,
                        Eff("evm", loaded, {}, NoTx), ledgerState)
       ELSE IF ~rpcOk
       THEN SettleCatch(body, <<"HTTP", "request", "failed">>,
                        Eff("evm", loaded, {"writeContract"}, NoTx), ledgerState)
       ELSE IF ~DelegatedTransferOk(ledgerState, ledger, Lower(from), amount)
       THEN SettleCatch(body, <<"The", "contract", "function", "transferFrom", "reverted">>,
                        Eff("evm", loaded, {"writeContract"}, NoTx), ledgerState)
       ELSE Outcome(Reply(200, SettleOk(from, TransactionHash,
                                        paymentData.network),
                          Eff("evm", loaded, {"writeContract", "waitForTransactionReceipt"},
                              Tx(ledger, "transferFrom", privateKey, Lower(from), Lower(to),
                                 amount, TRUE))),
                    DelegatedTransfer(ledgerState, ledger, Lower(from), Lower(to), amount))
  ELSE IF signedTransaction.kind = "none"
  THEN SettleCatch(body, <<"No", "signed", "transaction", "provided", "for", "Radius",
                           "payment">>, Eff("evm", loaded, {}, NoTx), ledgerState)
  ELSE IF ~rpcOk
  THEN SettleCatch(body, <<"HTTP", "request", "failed">>,
                   Eff("evm", loaded, {"sendRawTransaction"}, NoTx), ledgerState)
  ELSE IF ~RawTransactionOk(ledgerState, signedTransaction)
  THEN SettleCatch(body, <<"RPC", "Request", "failed">>,
                   Eff("evm", loaded, {"sendRawTransaction"},
                       Tx("radius", "sendRawTransaction", "", Lower(signedTransaction.signer),
                          Lower(signedTransaction.to), signedTransaction.amount, FALSE)),
                   ledgerState)
  ELSE Outcome(Reply(200, SettleOk(from, TransactionHash,
                                   paymentData.network),
                     Eff("evm", loaded, {"sendRawTransaction", "waitForTransactionReceipt"},
                         Tx("radius", "sendRawTransaction", "", Lower(signedTransaction.signer),
                            Lower(signedTransaction.to), signedTransaction.amount, TRUE))),
               RawTransaction(ledgerState, signedTransaction))

\* ---------------------------------------------------------------- /supported
\* routes/supported.ts: getSupportedNetworks, the kinds in the order pushed.
Kind(network) == [ x402Version |-> 1, scheme |-> "exact", network |-> network ]
\* The listing with the address tests left out: a family is listed as soon
\* as its signing key is set.
getSupportedNetworksByKey(cfg) ==
  (IF cfg.radiusFacilitatorPrivateKey # "" THEN <<Kind("radius-testnet")>> ELSE << >>)
  \o (IF cfg.baseFacilitatorPrivateKey # ""
      THEN <<Kind(IF cfg.baseChainId = BaseMainnetChainId THEN "base" ELSE "base-sepolia")>>
      ELSE << >>)
  \o (IF cfg.solanaFacilitatorPrivateKey # "" THEN <<Kind("solana-mainnet-beta")>> ELSE << >>)

getSupportedNetworks(cfg) ==
  (IF cfg.radiusMerchantAddress # "" /\ cfg.radiusFacilitatorPrivateKey # ""
   THEN <<Kind("radius-testnet")>> ELSE << >>)
  \o (IF cfg.baseFacilitatorAddress # "" /\ cfg.baseFacilitatorPrivateKey # ""
      THEN <<Kind(IF cfg.baseChainId = BaseMainnetChainId THEN "base" ELSE "base-sepolia")>> ELSE << >>)
  \o (IF cfg.solanaFacilitatorAddress # "" /\ cfg.solanaFacilitatorPrivateKey # ""
      THEN <<Kind("solana-mainnet-beta")>> ELSE << >>)

\* ------------------------------------------------------------------- inputs
\* What clients send. A payload, a proof (the decoded header), a header.
Payload(from, to, amount, nonce, deadline, signature, signedTransaction) ==
  [ from |-> from, to |-> to, amount |-> amount, nonce |-> nonce, deadline |-> deadline,
    signature |-> signature, signedTransaction |-> signedTransaction ]
Proof(scheme, network, payload) ==
  [ x402Version |-> 1, scheme |-> scheme, network |-> network, payload |-> payload ]
ProofNoPayload(scheme, network) ==
  [ x402Version |-> 1, scheme |-> scheme, network |-> network ]
\* Proofs whose JSON lacks the scheme or the network member.
ProofNoScheme(network, payload) ==
  [ x402Version |-> 1, network |-> network, payload |-> payload ]
ProofNoNetwork(scheme, payload) ==
  [ x402Version |-> 1, scheme |-> scheme, payload |-> payload ]
Header(json) == [ decodable |-> TRUE, json |-> json ]
BadHeader == [ decodable |-> FALSE ]
\* req.body without a paymentHeader member.
MissingHeader == [ decodable |-> FALSE, missing |-> TRUE ]

\* The chain ID a client signs for when it pays on a network.
ChainIdOf(network) ==
  CASE LedgerOf(network) = "radius" -> RadiusChainId
    [] LedgerOf(network) = "base" -> BaseMainnetChainId
    [] LedgerOf(network) = "base-sepolia" -> BaseSepoliaChainId
    [] OTHER -> 0

Amounts == 1..MaxAmount
Deadlines == 1..MaxDeadline
Payers == {PayerAddr, MalloryAddr}

\* The signatures a client may attach to the payment (from, to, amount,
\* nonce, deadline) on a network: typed-data signatures by the payer or by
\* somebody else, under a domain bound to the facilitator or to the payee
\* and to the chain of the network or to the other Base chain; detached
\* Ed25519 signatures by either; bytes that are no signature; none.
Signatures(network, from, to, amount, nonce, deadline) ==
  IF LedgerOf(network) = "solana"
  THEN { Auth("ed25519", s, "", 0, from, to, amount, nonce, deadline) : s \in Payers }
       \cup {Garbage, NoAuth}
  ELSE IF LedgerOf(network) = "none" THEN {NoAuth}
  ELSE { Auth("eip712", s, vc, c, from, to, amount, nonce, deadline) :
           s \in Payers, vc \in {FacilitatorAddr, to},
           c \in {ChainIdOf(network),
                  IF ChainIdOf(network) = BaseMainnetChainId
                  THEN BaseSepoliaChainId ELSE BaseMainnetChainId} }
       \cup {Garbage, NoAuth}

\* The pre-signed native transfers a client may attach on Radius: by the
\* payer or by somebody else, to the payee, of the amount, for Radius, as
\* the signer's first transaction; bytes that are no transaction; none.
SignedTransactions(network, to, amount) ==
  IF LedgerOf(network) = "radius"
  THEN { Auth("tx", s, "", RadiusChainId, s, to, amount, 0, 0) : s \in Payers }
       \cup {Garbage, NoAuth}
  ELSE {NoAuth}

\* The payloads of the proofs explored by /verify.
Payloads(network) ==
  UNION { UNION { { Payload(from, to, amount, nonce, deadline, sig, tx) :
                      sig \in IF tx.kind = "none"
                              THEN Signatures(network, from, to, amount, nonce, deadline)
                              ELSE {Garbage, NoAuth} } :
                  tx \in SignedTransactions(network, to, amount) } :
          from \in Payers, to \in {MerchantAddr, MerchantAddrLc, FacilitatorAddr}, amount \in Amounts, nonce \in {1},
          deadline \in Deadlines }

Proofs ==
  UNION { { Proof("exact", n, p) : p \in Payloads(n) } : n \in Networks }
  \cup { Proof("unsupported_scheme", n,
               Payload(PayerAddr, MerchantAddr, 1, 1, 1, NoAuth, NoAuth)) : n \in Networks }
  \cup { ProofNoPayload(s, n) : s \in {"exact", "unsupported_scheme"}, n \in Networks }

\* The requirement a merchant publishes (premium-api: createPaymentRequirement)
\* names maxAmountRequired and payTo; a caller may repeat them under the
\* names solana/verify.ts reads, maxAmount and recipientAddress.
Requirement(maxAmountRequired, payTo) ==
  [ scheme |-> "exact", maxAmountRequired |-> maxAmountRequired, payTo |-> payTo ]
RequirementBoth(maxAmountRequired, payTo, maxAmount, recipientAddress) ==
  [ scheme |-> "exact", maxAmountRequired |-> maxAmountRequired, payTo |-> payTo,
    maxAmount |-> maxAmount, recipientAddress |-> recipientAddress ]
MerchantRequirements ==
  { Requirement(a, t) : a \in Amounts, t \in {MerchantAddr, FacilitatorAddr} }
Requirements(network) ==
  MerchantRequirements
  \cup IF LedgerOf(network) = "solana"
       THEN { RequirementBoth(r.maxAmountRequired, r.payTo, r.maxAmountRequired, r.payTo) :
                r \in MerchantRequirements }
       ELSE {}

\* req.body of a POST.
Body(paymentHeader, paymentRequirements) ==
  [ x402Version |-> 1, paymentHeader |-> paymentHeader,
    paymentRequirements |-> paymentRequirements ]
VerifyBodies ==
  UNION { { Body(Header(p), r) : r \in Requirements(p.network) } : p \in Proofs }
  \cup { Body(h, Requirement(1, MerchantAddr)) : h \in {BadHeader, MissingHeader} }

\* The payloads of the proofs explored by /settle and by the system as a
\* whole: what a client attaches that signs for itself (its own typed-data
\* or Ed25519 signature under the facilitator's domain, or a pre-signed
\* transfer by the payer or by somebody else), or nothing at all, with the
\* latest deadline (/settle reads no deadline; the clock expires it).
SettlePayloads(network) ==
  { p \in Payloads(network) :
      /\ p.to # MerchantAddrLc
      /\ p.deadline = MaxDeadline
      /\ p.signature.kind \in {"none", "eip712", "ed25519"}
      /\ p.signature.kind # "none" => p.signature.signer = p.from
      /\ p.signature.kind = "eip712" =>
           p.signature.vc = FacilitatorAddr /\ p.signature.chainId = ChainIdOf(network)
      /\ p.signedTransaction.kind \in {"none", "tx"} }

SettleProofs ==
  UNION { { Proof("exact", n, p) : p \in SettlePayloads(n) } : n \in Networks }
  \cup UNION { { Proof("unsupported_scheme", n, p) :
                   p \in { q \in SettlePayloads(n) :
                            q.from = PayerAddr /\ q.to = MerchantAddr /\ q.amount = 1 } } :
               n \in Networks }
  \cup { ProofNoPayload(s, n) : s \in {"exact", "unsupported_scheme"}, n \in Networks }
  \cup UNION { { ProofNoScheme("base", p), ProofNoNetwork("exact", p) } :
                  p \in { q \in SettlePayloads("base") :
                           /\ q.from = PayerAddr /\ q.to = MerchantAddr /\ q.amount = 1
                           /\ q.signedTransaction.kind = "none" } }

\* Proofs whose payload.to is no address (verify.spec.ts: the settlement
\* error tests), one per network; on Radius with or without a pre-signed
\* transfer, which can only be to a real address.
InvalidRecipientProofs ==
  UNION { { Proof("exact", n, Payload(PayerAddr, InvalidAddr, 1, 1, MaxDeadline, NoAuth, tx)) :
              tx \in { t \in SignedTransactions(n, MerchantAddr, 1) :
                         t.kind = "none" \/ (t.kind = "tx" /\ t.signer = PayerAddr) } } :
          n \in NetworkNames }

SettleBodies ==
  { Body(Header(p), Requirement(1, MerchantAddr)) : p \in SettleProofs \cup InvalidRecipientProofs }
  \cup { Body(h, Requirement(1, MerchantAddr)) : h \in {BadHeader, MissingHeader} }

\* -------------------------------------------------------------------- state
VARIABLES
  config,   \* the configuration the process loaded (config.ts)
  now,      \* the clock, in seconds (Math.floor(Date.now() / 1000))
  ledger,   \* the chains: balances, delegations, Radius account nonces
  req,      \* the request being answered, NoReq between requests
  resp,     \* its response and what the handler did, NoResp between requests
  settled,  \* history: the first header whose /settle made a chain execute a
            \* transfer, as a set (empty before)
  handlers, \* the /settle requests in flight when requests overlap: for each,
            \* where its handler stands
  premium   \* the merchant's premium API: its configuration, the request to
            \* /premium-data it is serving, the facilitator calls it made

vars == <<config, now, ledger, req, resp, settled, handlers, premium>>

\* The requests the process serves at once when they overlap (an async
\* handler yields at every await), and where a handler stands.
Handlers == 1..MaxConcurrent
Idle == [ pc |-> "idle" ]

\* The premium API is not part of the run.
PremiumOff == [ pc |-> "off" ]

NoReq == [ op |-> "none" ]
NoResp == [ status |-> 0 ]
Request(op, body, rpcOk, at, replay) ==
  [ op |-> op, body |-> body, rpcOk |-> rpcOk, at |-> at, replay |-> replay ]

\* On the chains of funded the payer holds b and has delegated b to the
\* facilitator; nobody else holds or has delegated anything.
InitLedger(funded, b) ==
  LET held(l, a) == IF l \in funded /\ a = AccountOf(l, PayerAddr) THEN b ELSE 0
  IN [ balances  |-> [ l \in Ledgers |-> [ a \in Accounts |-> held(l, a) ] ],
       allowance |-> [ l \in Ledgers |-> [ a \in Accounts |-> held(l, a) ] ],
       txCount   |-> [ a \in Accounts |-> 0 ] ]

Init ==
  /\ config \in Configs
  /\ now = 0
  /\ ledger \in { InitLedger({l}, InitBalance) : l \in Ledgers }
  /\ req = NoReq
  /\ resp = NoResp
  /\ settled = {}
  /\ handlers = [ h \in Handlers |-> Idle ]
  /\ premium = PremiumOff

\* POST /verify.
\* A /verify that moved the payment it checked.
VerifySettling(body, rpcOk) ==
  /\ req = NoReq
  /\ req' = Request("verify", body, rpcOk, now, FALSE)
  /\ resp' = verifyPayment(config, body, now, ledger.balances, rpcOk)
  /\ ledger' = settlePayment(config, body, ledger, rpcOk).ledgerState
  /\ UNCHANGED <<config, now, settled, handlers, premium>>

Verify(body, rpcOk) ==
  /\ req = NoReq
  /\ req' = Request("verify", body, rpcOk, now, FALSE)
  /\ resp' = verifyPayment(config, body, now, ledger.balances, rpcOk)
  /\ UNCHANGED <<config, now, ledger, settled, handlers, premium>>

\* POST /settle.
Settle(body, rpcOk) ==
  LET out == settlePayment(config, body, ledger, rpcOk)
      executed == out.reply.eff.tx.submitted /\ out.reply.eff.tx.executed
  IN /\ req = NoReq
     /\ req' = Request("settle", body, rpcOk, now, body.paymentHeader \in settled)
     /\ resp' = out.reply
     /\ ledger' = out.ledgerState
     /\ settled' = IF executed /\ settled = {} THEN {body.paymentHeader} ELSE settled
     /\ UNCHANGED <<config, now, handlers, premium>>

\* GET /supported.
Supported ==
  /\ req = NoReq
  /\ req' = [ op |-> "supported" ]
  /\ resp' = Reply(200, [ kinds |-> getSupportedNetworks(config) ], NoEff)
  /\ UNCHANGED <<config, now, ledger, settled, handlers, premium>>

\* The response is sent: the handlers keep nothing of a request.
Deliver ==
  /\ req # NoReq
  /\ req' = NoReq
  /\ resp' = NoResp
  /\ UNCHANGED <<config, now, ledger, settled, handlers, premium>>

\* A second passes between two requests.
Tick ==
  /\ req = NoReq
  /\ now < MaxDeadline + 1
  /\ now' = now + 1
  /\ UNCHANGED <<config, ledger, req, resp, settled, handlers, premium>>


Next ==
  \/ req = NoReq /\ \E body \in SettleBodies, rpcOk \in BOOLEAN : Verify(body, rpcOk)
  \/ req = NoReq /\ \E body \in SettleBodies, rpcOk \in BOOLEAN : Settle(body, rpcOk)
  \/ Supported
  \/ Deliver
  \/ Tick

Spec == Init /\ [][Next]_vars

\* /verify alone, as a function of its inputs: every configuration, every
\* time, a payer with or without funds, every proof and requirement.
InitVerify ==
  /\ config \in Configs
  /\ now \in 0..(MaxDeadline + 1)
  /\ ledger \in { InitLedger(Ledgers, b) : b \in {0, InitBalance} }
  /\ req = NoReq
  /\ resp = NoResp
  /\ settled = {}
  /\ handlers = [ h \in Handlers |-> Idle ]
  /\ premium = PremiumOff


NextVerify ==
  \/ req = NoReq /\ \E body \in VerifyBodies, rpcOk \in BOOLEAN : Verify(body, rpcOk)
  \/ Deliver

SpecVerify == InitVerify /\ [][NextVerify]_vars

\* Overlapping /settle requests. settlePayment and settleSolanaPayment are
\* async: a handler runs from the request to its first RPC await, other
\* handlers run while it waits for the chain, and it resumes with the
\* receipt or the error.
ConcurrentBodies ==
  UNION { { Body(Header(Proof("exact", n, p)), Requirement(1, MerchantAddr)) :
              p \in { q \in SettlePayloads(n) :
                        q.from = PayerAddr /\ q.to = MerchantAddr /\ q.amount = 1 } } :
          n \in NetworkNames }

\* The handler runs up to its first RPC request. A request that ends before
\* (a rejection, a thrown error, a simulated settlement) is answered at
\* once; otherwise the handler is submitting and waits.
SettleBegin(h, body) ==
  LET out == settlePayment(config, body, ledger, TRUE)
  IN /\ handlers[h] = Idle
     /\ handlers' = [ handlers EXCEPT ![h] =
                        IF out.reply.eff.rpc = {}
                        THEN [ pc |-> "responding", body |-> body, reply |-> out.reply ]
                        ELSE [ pc |-> "submitting", body |-> body ] ]
     /\ UNCHANGED <<config, now, ledger, req, resp, settled, premium>>

\* The chain answers: the transfer executes, or not, on the ledger as it
\* is by then, and the handler resumes with the receipt or the error.
SettleConfirm(h, rpcOk) ==
  /\ handlers[h].pc = "submitting"
  /\ LET out == settlePayment(config, handlers[h].body, ledger, rpcOk)
     IN /\ ledger' = out.ledgerState
        /\ handlers' = [ handlers EXCEPT ![h] =
                           [ pc |-> "responding", body |-> handlers[h].body,
                             reply |-> out.reply ] ]
  /\ UNCHANGED <<config, now, req, resp, settled, premium>>

\* res.json: the response is sent.
SettleRespond(h) ==
  /\ handlers[h].pc = "responding"
  /\ handlers' = [ handlers EXCEPT ![h] = Idle ]
  /\ UNCHANGED <<config, now, ledger, req, resp, settled, premium>>

InitConcurrent ==
  /\ config \in Configs
  /\ now = 0
  /\ ledger = InitLedger(Ledgers, InitBalance)
  /\ req = NoReq
  /\ resp = NoResp
  /\ settled = {}
  /\ handlers = [ h \in Handlers |-> Idle ]
  /\ premium = PremiumOff

RespondAny == \E h \in Handlers : SettleRespond(h)

NextConcurrent ==
  \/ \E h \in Handlers, body \in ConcurrentBodies : SettleBegin(h, body)
  \/ \E h \in Handlers, rpcOk \in BOOLEAN : SettleConfirm(h, rpcOk)
  \/ RespondAny

SpecConcurrent == InitConcurrent /\ [][NextConcurrent]_vars

\* Settlements whose transaction waits for inclusion. writeContract and
\* sendAndConfirmTransaction simulate the transfer on the chain as it is when
\* they submit; the chain executes it when it includes it, on the state it
\* has by then, and reports the outcome in the receipt (EVM: receipt.status)
\* or in the confirmation (Solana: value.err).
InclusionBodies ==
  UNION { { Body(Header(Proof("exact", n, p)), Requirement(1, MerchantAddr)) :
              p \in { q \in SettlePayloads(n) : q.from = PayerAddr /\ q.to = MerchantAddr } } :
          n \in {"base", "base-sepolia", "solana-mainnet-beta"} }

\* The handler runs to the submission: a request that ends before, or whose
\* simulation fails, is answered at once; else its transaction is pending.
SettleSubmit(h, body, rpcOk) ==
  LET out == settlePayment(config, body, ledger, rpcOk)
      tx  == out.reply.eff.tx
  IN /\ handlers[h] = Idle
     /\ handlers' = [ handlers EXCEPT ![h] =
                        IF tx.submitted /\ tx.executed
                        THEN [ pc |-> "pending", body |-> body, reply |-> out.reply ]
                        ELSE [ pc |-> "responding", body |-> body, reply |-> out.reply ] ]
     /\ UNCHANGED <<config, now, ledger, req, resp, settled, premium>>

\* The chain includes a pending transaction: the transfer executes if the
\* payer's balance and delegation still cover it, else it reverts and
\* moves nothing.
ChainIncludes(h) ==
  /\ handlers[h].pc = "pending"
  /\ LET out == settlePayment(config, handlers[h].body, ledger, TRUE)
         ok  == out.reply.eff.tx.submitted /\ out.reply.eff.tx.executed
     IN /\ ledger' = IF ok THEN out.ledgerState ELSE ledger
        /\ handlers' = [ handlers EXCEPT ![h] =
                           [ pc |-> "included", body |-> handlers[h].body,
                             reply |-> handlers[h].reply,
                             receipt |-> IF ok THEN "success" ELSE "reverted" ] ]
  /\ UNCHANGED <<config, now, req, resp, settled, premium>>

\* settle.ts, solana/settle.ts: what the handler answers once the wait
\* returns. submitted is the success it was heading for. On Solana
\* sendAndConfirmTransaction throws when the confirmation carries an error
\* and the catch block answers; settlePayment reads nothing of the receipt
\* but blockNumber and gasUsed for the log.
ReplyOnReceipt(body, submitted, receipt) ==
  IF submitted.eff.routed = "solana" /\ receipt = "reverted"
  THEN Reply(200, SettleFail(body.paymentHeader.json.payload.from, "solana-mainnet-beta",
                             Text(<<"Transaction", "failed">>)), submitted.eff)
  ELSE submitted

\* waitForTransactionReceipt or sendAndConfirmTransaction returns.
SettleReceipt(h) ==
  /\ handlers[h].pc = "included"
  /\ handlers' = [ handlers EXCEPT ![h] =
                     [ pc |-> "responding", body |-> handlers[h].body,
                       receipt |-> handlers[h].receipt,
                       reply |-> ReplyOnReceipt(handlers[h].body, handlers[h].reply,
                                                handlers[h].receipt) ] ]
  /\ UNCHANGED <<config, now, ledger, req, resp, settled, premium>>

NextInclusion ==
  \/ \E h \in Handlers, body \in InclusionBodies, rpcOk \in BOOLEAN : SettleSubmit(h, body, rpcOk)
  \/ \E h \in Handlers : ChainIncludes(h)
  \/ \E h \in Handlers : SettleReceipt(h)
  \/ RespondAny

SpecInclusion == InitConcurrent /\ [][NextInclusion]_vars

\* Requests whose RPC endpoint may never answer. verifyPayment awaits the
\* balance query as settlePayment awaits the chain: the handler runs up to
\* the request and resumes when the client library resolves or rejects the
\* promise. No call passes a timeout and no handler races its await against
\* a timer, so the handler resumes only if the endpoint answers or fails.
VerifyBegin(h, body) ==
  LET reply == verifyPayment(config, body, now, ledger.balances, TRUE)
  IN /\ handlers[h] = Idle
     /\ handlers' = [ handlers EXCEPT ![h] =
                        IF reply.eff.rpc = {}
                        THEN [ pc |-> "responding", body |-> body, reply |-> reply ]
                        ELSE [ pc |-> "querying", body |-> body ] ]
     /\ UNCHANGED <<config, now, ledger, req, resp, settled, premium>>

\* The endpoint answers the balance query, or the request fails.
VerifyConfirm(h, rpcOk) ==
  /\ handlers[h].pc = "querying"
  /\ handlers' = [ handlers EXCEPT ![h] =
                     [ pc |-> "responding", body |-> handlers[h].body,
                       reply |-> verifyPayment(config, handlers[h].body, now,
                                               ledger.balances, rpcOk) ] ]
  /\ UNCHANGED <<config, now, ledger, req, resp, settled, premium>>


NextAwaiting ==
  \/ \E h \in Handlers, body \in ConcurrentBodies : SettleBegin(h, body)
  \/ \E h \in Handlers, rpcOk \in BOOLEAN : SettleConfirm(h, rpcOk)
  \/ \E h \in Handlers, body \in ConcurrentBodies : VerifyBegin(h, body)
  \/ \E h \in Handlers, rpcOk \in BOOLEAN : VerifyConfirm(h, rpcOk)
  \/ RespondAny

\* Express sends a response the handler has produced; nothing makes the
\* endpoint answer.
SpecAwaiting == InitConcurrent /\ [][NextAwaiting]_vars /\ WF_vars(RespondAny)

\* ------------------------------------------------------------- premium API
\* premium-api config: the merchant's address on each network it sells on
\* ("" where it does not), the Base chain it names, what it charges.
MerchantConfig(radius, base, solana, baseChainId) ==
  [ radiusMerchantAddress |-> radius, baseMerchantAddress |-> base,
    solanaMerchantAddress |-> solana, baseChainId |-> baseChainId, paymentAmount |-> 1 ]

\* middleware/x402.ts: createPaymentRequirement. accepts holds at most one
\* entry per network.
Accept(network, amount, payTo) ==
  [ scheme |-> "exact", network |-> network, maxAmountRequired |-> amount, payTo |-> payTo ]
createPaymentRequirement(mc) ==
  LET networkName == IF mc.baseChainId = BaseMainnetChainId THEN "base" ELSE "base-sepolia"
  IN [ x402Version |-> 1,
       accepts |->
         (IF mc.radiusMerchantAddress # ""
          THEN {Accept("radius-testnet", mc.paymentAmount, mc.radiusMerchantAddress)} ELSE {})
         \cup (IF mc.baseMerchantAddress # ""
               THEN {Accept(networkName, mc.paymentAmount, mc.baseMerchantAddress)} ELSE {})
         \cup (IF mc.solanaMerchantAddress # ""
               THEN {Accept("solana-mainnet-beta", mc.paymentAmount, mc.solanaMerchantAddress)}
               ELSE {}),
       error |-> Text(<<"Payment", "required", "to", "access", "premium", "data">>) ]

\* middleware/x402.ts: what verifyWithFacilitator and settleWithFacilitator
\* do before they fetch: decode the header, find the requirement of its
\* scheme and network, throw when there is none; else the body they post.
FacilitatorRequest(paymentHeader, paymentRequirements) ==
  IF DecodeThrows(paymentHeader) THEN [ throws |-> TRUE ]
  ELSE LET paymentData == paymentHeader.json
           matching == { r \in paymentRequirements.accepts :
                           /\ Has(paymentData, "scheme") /\ r.scheme = paymentData.scheme
                           /\ Has(paymentData, "network") /\ r.network = paymentData.network }
       IN IF matching = {} THEN [ throws |-> TRUE ]
          ELSE [ throws |-> FALSE,
                 body |-> Body(paymentHeader, CHOOSE r \in matching : TRUE) ]

\* A handler that goes on to settle whatever /verify said.
VerifyIgnored(verifyResult) == TRUE

\* index.ts: the test on verifyResult before settling.
VerifyPassed(verifyResult) == verifyResult.isValid = TRUE

\* index.ts: the responses of GET /premium-data.
PaymentRequired(mc) == [ status |-> 402, body |-> createPaymentRequirement(mc) ]
InternalError == [ status |-> 500, body |-> [ error |-> "Internal server error" ] ]

\* The X-PAYMENT header of a request: absent (or empty), or a header.
NoXPayment == [ absent |-> TRUE ]
XPayments ==
  {NoXPayment, BadHeader}
  \cup UNION { { Header(Proof(s, n, p)) :
                   s \in {"exact", "unsupported_scheme"},
                   p \in { q \in SettlePayloads(n) : q.from = PayerAddr /\ q.amount = 1 } } :
               n \in NetworkNames \cup {"8453"} }

\* The handler of GET /premium-data between requests, and once it answered.
PremiumIdle(mc) == [ pc |-> "idle", config |-> mc, calls |-> << >> ]
PremiumDone(response, calls) ==
  [ pc |-> "done", config |-> premium.config, xPayment |-> premium.xPayment,
    calls |-> calls, response |-> response ]
Call(op, paymentHeader, reply) ==
  [ op |-> op, paymentHeader |-> paymentHeader, status |-> reply.status, result |-> reply.body ]

\* GET /premium-data arrives: without payment it is answered 402 with the
\* requirements; else the handler prepares the /verify call and, unless
\* that throws, awaits the facilitator.
PremiumRequest(xPayment) ==
  /\ premium.pc = "idle"
  /\ LET started == [ pc |-> "verifying", config |-> premium.config, xPayment |-> xPayment,
                      calls |-> << >> ]
         paymentRequirements == createPaymentRequirement(premium.config)
         done(response) == [ pc |-> "done", config |-> premium.config,
                             xPayment |-> xPayment, calls |-> << >>, response |-> response ]
     IN premium' =
          IF xPayment = NoXPayment THEN done(PaymentRequired(premium.config))
          ELSE IF FacilitatorRequest(xPayment, paymentRequirements).throws
          THEN done(InternalError)
          ELSE started
  /\ UNCHANGED <<config, now, ledger, req, resp, settled, handlers>>

\* The facilitator answers /verify: a status other than 2xx throws, an
\* invalid result is answered 402, a valid one leads to the /settle call.
PremiumVerified(rpcOk) ==
  /\ premium.pc = "verifying"
  /\ LET request == FacilitatorRequest(premium.xPayment,
                                       createPaymentRequirement(premium.config))
         reply   == verifyPayment(config, request.body, now, ledger.balances, rpcOk)
         calls   == Append(premium.calls, Call("verify", premium.xPayment, reply))
     IN premium' =
          IF reply.status # 200 THEN PremiumDone(InternalError, calls)
          ELSE IF ~VerifyPassed(reply.body)
          THEN PremiumDone([ status |-> 402,
                             body |-> [ error |-> "Invalid payment",
                                        reason |-> reply.body.invalidReason ] ], calls)
          ELSE [ premium EXCEPT !.pc = "settling", !.calls = calls ]
  /\ UNCHANGED <<config, now, ledger, req, resp, settled, handlers>>

\* The facilitator answers /settle: failure is answered 500, success with
\* the premium data.
PremiumSettled(rpcOk) ==
  /\ premium.pc = "settling"
  /\ LET request == FacilitatorRequest(premium.xPayment,
                                       createPaymentRequirement(premium.config))
         out     == settlePayment(config, request.body, ledger, rpcOk)
         calls   == Append(premium.calls, Call("settle", premium.xPayment, out.reply))
     IN /\ ledger' = out.ledgerState
        /\ premium' =
             IF out.reply.status # 200 THEN PremiumDone(InternalError, calls)
             ELSE IF out.reply.body.success # TRUE
             THEN PremiumDone([ status |-> 500,
                                body |-> [ error |-> "Settlement failed",
                                           reason |-> out.reply.body.errorReason ] ], calls)
             ELSE PremiumDone([ status |-> 200,
                                body |-> [ tier |-> "premium",
                                           paymentTxHash |-> out.reply.body.transaction,
                                           networkId |-> out.reply.body.network ] ], calls)
  /\ UNCHANGED <<config, now, req, resp, settled, handlers>>

\* The response is sent.
PremiumRespond ==
  /\ premium.pc = "done"
  /\ premium' = PremiumIdle(premium.config)
  /\ UNCHANGED <<config, now, ledger, req, resp, settled, handlers>>

\* A second passes while the premium API runs or waits.
PremiumTick ==
  /\ premium.pc # "off"
  /\ now < MaxDeadline + 1
  /\ now' = now + 1
  /\ UNCHANGED <<config, ledger, req, resp, settled, handlers, premium>>

InitPremium ==
  /\ config \in Configs
  /\ now = 0
  /\ ledger \in { InitLedger({l}, InitBalance) : l \in Ledgers }
  /\ req = NoReq
  /\ resp = NoResp
  /\ settled = {}
  /\ handlers = [ h \in Handlers |-> Idle ]
  /\ premium \in
       { PremiumIdle(mc) :
           mc \in { MerchantConfig(MerchantAddr, MerchantAddr, MerchantAddr, BaseMainnetChainId),
                    MerchantConfig(MerchantAddr, MerchantAddr, "", BaseSepoliaChainId),
                    MerchantConfig(MerchantAddr, "", "", BaseMainnetChainId) } }


NextPremium ==
  \/ premium.pc = "idle" /\ \E xPayment \in XPayments : PremiumRequest(xPayment)
  \/ \E rpcOk \in BOOLEAN : PremiumVerified(rpcOk)
  \/ \E rpcOk \in BOOLEAN : PremiumSettled(rpcOk)
  \/ PremiumRespond
  \/ PremiumTick

SpecPremium == InitPremium /\ [][NextPremium]_vars

\* -------------------------------------------------------------- proof codec
\* JS values of a proof: strings (sequences of characters, written here in
\* chunks), numbers, objects (their members in insertion order).
JsStr(chars) == [ str |-> chars ]
JsNum(n) == [ num |-> n ]
JsObj(members) == [ obj |-> members ]

\* Number.prototype.toString for a non-negative safe integer, and back.
RECURSIVE Digits(_)
Digits(n) ==
  LET d == <<"0", "1", "2", "3", "4", "5", "6", "7", "8", "9">>[(n % 10) + 1]
  IN IF n < 10 THEN <<d>> ELSE Append(Digits(n \div 10), d)
DigitValue(c) ==
  CHOOSE v \in 0..9 : <<"0", "1", "2", "3", "4", "5", "6", "7", "8", "9">>[v + 1] = c
RECURSIVE Number(_)
Number(chars) ==
  IF Len(chars) = 1 THEN DigitValue(chars[1])
  ELSE 10 * Number(SubSeq(chars, 1, Len(chars) - 1)) + DigitValue(chars[Len(chars)])

\* The text JSON.stringify writes, as its tokens: punctuation, quoted
\* strings, number literals.
Punct(c) == [ p |-> c ]
Quoted(chars) == [ q |-> chars ]

\* A JSON.stringify that writes numbers in quotes.
RECURSIVE stringifyQuoting(_)
stringifyQuoting(value) ==
  IF Has(value, "str") THEN <<Quoted(value.str)>>
  ELSE IF Has(value, "num") THEN <<Quoted(Digits(value.num))>>
  ELSE LET members == value.obj
           Member(i) == (IF i > 1 THEN <<Punct(",")>> ELSE << >>)
                        \o <<Quoted(<<members[i][1]>>), Punct(":")>>
                        \o stringifyQuoting(members[i][2])
           Upto[i \in 0..Len(members)] == IF i = 0 THEN << >> ELSE Upto[i - 1] \o Member(i)
       IN <<Punct("{")>> \o Upto[Len(members)] \o <<Punct("}")>>

\* JSON.stringify(value).
RECURSIVE stringify(_)
stringify(value) ==
  IF Has(value, "str") THEN <<Quoted(value.str)>>
  ELSE IF Has(value, "num") THEN <<[ n |-> Digits(value.num) ]>>
  ELSE LET members == value.obj
           Member(i) == (IF i > 1 THEN <<Punct(",")>> ELSE << >>)
                        \o <<Quoted(<<members[i][1]>>), Punct(":")>>
                        \o stringify(members[i][2])
           Upto[i \in 0..Len(members)] == IF i = 0 THEN << >> ELSE Upto[i - 1] \o Member(i)
       IN <<Punct("{")>> \o Upto[Len(members)] \o <<Punct("}")>>

\* JSON.parse(text), for a text that is JSON: the value read from the front
\* of the tokens and the tokens after it.
RECURSIVE parseValue(_)
RECURSIVE parseMembers(_, _)
parseValue(tokens) ==
  LET t == Head(tokens)
  IN IF Has(t, "q") THEN [ value |-> JsStr(t.q), rest |-> Tail(tokens) ]
     ELSE IF Has(t, "n") THEN [ value |-> JsNum(Number(t.n)), rest |-> Tail(tokens) ]
     ELSE parseMembers(Tail(tokens), << >>)
parseMembers(tokens, members) ==
  LET t == Head(tokens)
  IN IF t = Punct("}") THEN [ value |-> JsObj(members), rest |-> Tail(tokens) ]
     ELSE IF t = Punct(",") THEN parseMembers(Tail(tokens), members)
     ELSE LET r == parseValue(Tail(Tail(tokens)))
          IN parseMembers(r.rest, Append(members, <<t.q[1], r.value>>))
parse(tokens) == parseValue(tokens).value

toBase64(text) ==
  LET n      == Len(text)
      pad    == (3 - (n % 3)) % 3
      padded == text \o [ i \in 1..pad |-> Punct("=") ]
  IN [ groups |-> [ g \in 1..((n + pad) \div 3) |->
                      <<padded[3 * g - 2], padded[3 * g - 1], padded[3 * g]>> ],
       pad |-> pad ]
fromBase64(header) ==
  LET Joined[g \in 0..Len(header.groups)] ==
        IF g = 0 THEN << >> ELSE Joined[g - 1] \o header.groups[g]
      all == Joined[Len(header.groups)]
  IN SubSeq(all, 1, Len(all) - header.pad)

\* payment-fixtures.ts: encodePaymentHeader; verify.ts: the decoding.
encodePaymentHeader(paymentData) == toBase64(stringify(paymentData))
decodePaymentHeader(paymentHeader) == parse(fromBase64(paymentHeader))

\* The well-formed proofs of the fixtures and of the agents: amounts are
\* decimal strings, nonces numbers (decimal strings on Solana), deadlines
\* numbers; a Radius proof may carry a signed transaction.
ProofObject(network, from, to, amount, nonce, deadline, extra) ==
  JsObj(<< <<"x402Version", JsNum(1)>>,
           <<"scheme", JsStr(<<"exact">>)>>,
           <<"network", JsStr(<<network>>)>>,
           <<"payload",
             JsObj(<< <<"from", JsStr(<<from>>)>>,
                      <<"to", JsStr(<<to>>)>>,
                      <<"amount", JsStr(Digits(amount))>>,
                      <<"nonce", IF network = "solana-mainnet-beta"
                                 THEN JsStr(Digits(nonce)) ELSE JsNum(nonce)>>,
                      <<"deadline", JsNum(deadline)>>,
                      <<"signature", JsStr(<<"0x", "signature">>)>> >> \o extra)>> >>)
ProofObjects ==
  { ProofObject(n, from, to, amount * 10, nonce, deadline + 10, extra) :
      n \in NetworkNames, from \in Payers, to \in {MerchantAddr, FacilitatorAddr},
      amount \in Amounts, nonce \in {1, 12}, deadline \in Deadlines,
      extra \in { << >>, << <<"signedTransaction", JsStr(<<"0x", "02f8">>)>> >> } }

\* A client encodes a proof; the facilitator decodes the header; the codec
\* is applied once more each way.
EncodeProof(x) ==
  /\ req = NoReq
  /\ req' = [ op |-> "encode", proof |-> x ]
  /\ resp' = [ status |-> 0, header |-> encodePaymentHeader(x) ]
  /\ UNCHANGED <<config, now, ledger, settled, handlers, premium>>

DecodeHeader ==
  /\ req.op = "encode"
  /\ req' = [ op |-> "decode", proof |-> req.proof, header |-> resp.header ]
  /\ resp' = [ status |-> 0, decoded |-> decodePaymentHeader(resp.header),
               reencoded |-> encodePaymentHeader(decodePaymentHeader(resp.header)) ]
  /\ UNCHANGED <<config, now, ledger, settled, handlers, premium>>


NextCodec ==
  \/ req = NoReq /\ \E x \in ProofObjects : EncodeProof(x)
  \/ DecodeHeader
  \/ Deliver

SpecCodec == InitConcurrent /\ [][NextCodec]_vars

\* --------------------------------------------------------------- properties
\* The request being answered, once its header decoded.
Readable == req.op \in {"verify", "settle"} /\ ~DecodeThrows(req.body.paymentHeader)
PaymentData == req.body.paymentHeader.json
HasPayload == Has(PaymentData, "payload") /\ Has(PaymentData.payload, "from")
ReqNetwork == Interpolate(PaymentData, "network")

\* The payer a payload names has signed for this payee and amount: the
\* authorization that governs on the network (the pre-signed transfer on
\* Radius when there is one, else the typed-data or Ed25519 signature over
\* the payload's own fields) is from's.
SignedByPayer(network, payload) ==
  LET sig == payload.signature
      tx  == payload.signedTransaction
      l   == LedgerOf(network)
  IN IF l = "radius" /\ tx.kind # "none"
     THEN /\ tx.kind = "tx"
          /\ AccountOf(l, tx.signer) = AccountOf(l, payload.from)
          /\ AccountOf(l, tx.to) = AccountOf(l, payload.to)
          /\ tx.amount = payload.amount
     ELSE /\ sig.kind = (IF l = "solana" THEN "ed25519" ELSE "eip712")
          /\ AccountOf(l, sig.signer) = AccountOf(l, payload.from)
          /\ AccountOf(l, sig.from) = AccountOf(l, payload.from)
          /\ AccountOf(l, sig.to) = AccountOf(l, payload.to)
          /\ sig.amount = payload.amount
          /\ sig.nonce = payload.nonce
          /\ sig.deadline = payload.deadline

\* C1: every /settle that submits a transfer (transferFrom on Base, the
\* delegated SPL transfer on Solana, the broadcast on Radius) does so for a
\* payload whose named payer has validly signed for exactly that payee and
\* amount; a missing or invalid signature never leads to a submitted transfer.
C1_TransferNeedsPayerSignature ==
  (req.op = "settle" /\ resp.eff.tx.submitted)
    => SignedByPayer(ReqNetwork, PaymentData.payload)

\* C2: a /settle that presents a proof a chain has already executed a
\* transfer for fails and moves no funds again.
C2_SettledOncePerProof ==
  (req.op = "settle" /\ req.replay)
    => /\ resp.body.success = FALSE
       /\ ~(resp.eff.tx.submitted /\ resp.eff.tx.executed)

\* The networks /supported lists under a configuration.
ListedNetworks(cfg) ==
  { getSupportedNetworks(cfg)[i].network : i \in DOMAIN getSupportedNetworks(cfg) }

\* The facilitator address configured for the family of a network: the
\* verifyingContract of the domain its payers sign under.
FacilitatorAddressFor(cfg, network) ==
  CASE LedgerOf(network) = "radius" -> cfg.radiusFacilitatorAddress
    [] LedgerOf(network) \in {"base", "base-sepolia"} -> cfg.baseFacilitatorAddress
    [] LedgerOf(network) = "solana" -> cfg.solanaFacilitatorAddress
    [] OTHER -> ""

\* A typed-data signature is bound to the facilitator and to the chain of
\* the network; the other authorizations carry no domain.
BoundToFacilitator(cfg, network, payload) ==
  LET sig == payload.signature
      tx  == payload.signedTransaction
      l   == LedgerOf(network)
  IN IF l = "radius" /\ tx.kind # "none" THEN tx.chainId = RadiusChainId
     ELSE IF l = "solana" THEN TRUE
     ELSE /\ AccountOf(l, sig.vc) = AccountOf(l, FacilitatorAddressFor(cfg, network))
          /\ sig.chainId = ChainIdOf(network)

\* Two addresses name the same account of the network's chain.
SamePayee(network, a, b) == AccountOf(LedgerOf(network), a) = AccountOf(LedgerOf(network), b)

\* What the balance oracle holds for the payer of the request.
PayerBalance ==
  ledger.balances[LedgerOf(ReqNetwork)][AccountOf(LedgerOf(ReqNetwork), PaymentData.payload.from)]

\* The request carries an 'exact' proof, for a network /supported lists,
\* that its payer has validly authorized.
AuthorizedProof ==
  /\ Readable /\ IsExactScheme(PaymentData) /\ HasPayload
  /\ ReqNetwork \in NetworkNames \cap ListedNetworks(config)
  /\ SignedByPayer(ReqNetwork, PaymentData.payload)
  /\ BoundToFacilitator(config, ReqNetwork, PaymentData.payload)

\* C3: on Radius, Base, Base Sepolia and Solana, /verify accepts every
\* 'exact' proof that is unexpired, pays at least maxAmountRequired to
\* payTo, is validly authorized by its payer and is covered by the payer's
\* balance: isValid is true, invalidReason null, payer the signer.
C3_VerifyAcceptsValidProofs ==
  ( /\ req.op = "verify" /\ AuthorizedProof
    /\ req.at <= PaymentData.payload.deadline
    /\ PaymentData.payload.amount >= req.body.paymentRequirements.maxAmountRequired
    /\ SamePayee(ReqNetwork, PaymentData.payload.to, req.body.paymentRequirements.payTo)
    /\ req.rpcOk /\ PayerBalance >= PaymentData.payload.amount )
    => /\ resp.body.isValid = TRUE
       /\ resp.body.invalidReason = JsNull
       /\ Has(resp.body, "payer")
       /\ resp.body.payer = PaymentData.payload.from

\* C4: /verify answers isValid = true only if the authorization is
\* payload.from's, now <= deadline, amount >= maxAmountRequired, payload.to
\* is the requirement's payTo and the payer's balance covers the amount.
C4_VerifyAcceptsOnlyValidProofs ==
  (req.op = "verify" /\ resp.body.isValid = TRUE)
    => /\ SignedByPayer(ReqNetwork, PaymentData.payload)
       /\ req.at <= PaymentData.payload.deadline
       /\ PaymentData.payload.amount >= req.body.paymentRequirements.maxAmountRequired
       /\ SamePayee(ReqNetwork, PaymentData.payload.to, req.body.paymentRequirements.payTo)
       /\ PayerBalance >= PaymentData.payload.amount

\* C5: for a validly authorized proof the reason /verify reports is that of
\* the first failing check in the order deadline, amount, recipient: it
\* contains "expired" when now > deadline (now = deadline is not expired),
\* else "amount" when amount < maxAmountRequired, else "recipient" when the
\* payee is not payTo, and never the word of a later check.
C5_FirstFailingCheckReported ==
  (req.op = "verify" /\ AuthorizedProof)
    => LET expired == req.at > PaymentData.payload.deadline
           short   == PaymentData.payload.amount < req.body.paymentRequirements.maxAmountRequired
           wrong   == ~SamePayee(ReqNetwork, PaymentData.payload.to,
                                 req.body.paymentRequirements.payTo)
           reason  == resp.body.invalidReason
       IN /\ expired => /\ resp.body.isValid = FALSE
                        /\ Contains(reason, "expired")
                        /\ ~Contains(reason, "amount") /\ ~Contains(reason, "recipient")
          /\ (~expired /\ short) => /\ resp.body.isValid = FALSE
                                    /\ Contains(reason, "amount")
                                    /\ ~Contains(reason, "expired")
                                    /\ ~Contains(reason, "recipient")
          /\ (~expired /\ ~short /\ wrong) => /\ resp.body.isValid = FALSE
                                              /\ Contains(reason, "recipient")
                                              /\ ~Contains(reason, "expired")
                                              /\ ~Contains(reason, "amount")
          /\ (~expired /\ ~short /\ ~wrong) => /\ ~Contains(reason, "expired")
                                               /\ ~Contains(reason, "amount")
                                               /\ ~Contains(reason, "recipient")

\* C6: every /verify response is an object with isValid and payer, payer
\* being payload.from when the header yields one and 'unknown' otherwise,
\* and with no member other than isValid, payer, invalidReason.
C6_VerifyResponseShape ==
  req.op = "verify"
    => /\ {"isValid", "payer"} \subseteq DOMAIN resp.body
       /\ DOMAIN resp.body \subseteq {"isValid", "payer", "invalidReason"}
       /\ resp.body.isValid \in BOOLEAN
       /\ resp.body.payer = (IF Readable THEN PayloadFrom(PaymentData) ELSE "unknown")

\* C7: /verify rejects every proof whose payload.to is the facilitator
\* address configured for the proof's network, whatever the requirement's
\* payee is.
C7_FacilitatorIsNeverPayee ==
  ( /\ req.op = "verify" /\ Readable /\ HasPayload
    /\ FacilitatorAddressFor(config, ReqNetwork) # ""
    /\ SamePayee(ReqNetwork, PaymentData.payload.to, FacilitatorAddressFor(config, ReqNetwork)) )
    => resp.body.isValid = FALSE

\* The signing key settle.ts and solana/settle.ts read for a network.
KeyFor(cfg, network) ==
  CASE LedgerOf(network) = "radius" -> cfg.radiusFacilitatorPrivateKey
    [] LedgerOf(network) \in {"base", "base-sepolia"} -> cfg.baseFacilitatorPrivateKey
    [] LedgerOf(network) = "solana" -> cfg.solanaFacilitatorPrivateKey
    [] OTHER -> ""

\* The reason of the response, whichever handler answered.
Reason == IF req.op = "verify" THEN resp.body.invalidReason ELSE resp.body.errorReason
Failed == IF req.op = "verify" THEN resp.body.isValid = FALSE ELSE resp.body.success = FALSE

\* A reason that says the ledger is not supported: it speaks of the network
\* (or ledger), or names the ledger's missing key.
NamesUnsupportedLedger(reason, network) ==
  \/ Contains(reason, "network")
  \/ Contains(reason, "ledger")
  \/ LedgerOf(network) = "solana" /\ Contains(reason, "SOLANA_FACILITATOR_PRIVATE_KEY")

C9_UnconfiguredLedgerRefused ==
  (req.op = "settle" /\ Readable /\ IsExactScheme(PaymentData) /\ HasPayload
     /\ KeyFor(config, ReqNetwork) = "")
    => /\ resp.eff.keys = {}
       /\ ~resp.eff.tx.submitted
       /\ resp.body.success = FALSE
       /\ NamesUnsupportedLedger(resp.body.errorReason, ReqNetwork)

\* C10: /verify and /settle dispatch a proof to an adapter only if
\* /supported lists its (scheme, network) under the configuration; a proof
\* for a network not listed is refused with an unsupported-ledger reason.
C10_RouterAgreesWithSupported ==
  (Readable /\ HasPayload
     /\ ~(IsExactScheme(PaymentData) /\ ReqNetwork \in ListedNetworks(config)))
    => /\ resp.eff.routed = "none"
       /\ Failed
       /\ IsExactScheme(PaymentData) => NamesUnsupportedLedger(Reason, ReqNetwork)

\* The address /supported asks for besides the signing key of a family.
CounterpartyAddressFor(cfg, network) ==
  CASE LedgerOf(network) = "radius" -> cfg.radiusMerchantAddress
    [] LedgerOf(network) \in {"base", "base-sepolia"} -> cfg.baseFacilitatorAddress
    [] LedgerOf(network) = "solana" -> cfg.solanaFacilitatorAddress
    [] OTHER -> ""

C12_SimulatedReferenceDistinct ==
  (req.op = "settle" /\ ~config.realSettlement /\ resp.body.success = TRUE)
    => resp.body.transaction \notin {TransactionHash, TransactionSignature}

\* C13: without ENABLE_REAL_SETTLEMENT no /settle, on any network, submits
\* a transaction, makes an RPC request or changes a balance, a delegation
\* or an account nonce of a ledger.
C13_SimulatedSettleTouchesNoLedger ==
  [][ (req.op = "none" /\ req'.op = "settle" /\ ~config.realSettlement)
        => /\ ledger' = ledger
           /\ resp'.eff.rpc = {}
           /\ ~resp'.eff.tx.submitted ]_vars

\* A simulated /settle of a Base proof has succeeded, and the payer still
\* holds on Base what it held at start.
C13_Witness ==
  /\ req.op = "settle" /\ ~config.realSettlement /\ Readable /\ HasPayload
  /\ ReqNetwork = "base"
  /\ resp.body.success = TRUE
  /\ resp.body.transaction = SimulatedHash
  /\ PayerBalance = InitBalance

\* The facilitator key a handler submits with on the network of its proof;
\* on Radius the broadcast transaction is signed by the payer alone.
SubmitKey(h) ==
  LET network == handlers[h].body.paymentHeader.json.network
  IN IF LedgerOf(network) = "radius" THEN "" ELSE KeyFor(config, network)

\* C14: of the /settle requests in flight, at most one at a time is between
\* starting to submit a transaction with a facilitator signing key and
\* receiving its confirmation.
C14_SettlementsSerializedPerKey ==
  \A h1, h2 \in Handlers :
    ( /\ h1 # h2
      /\ handlers[h1].pc = "submitting" /\ handlers[h2].pc = "submitting"
      /\ SubmitKey(h1) # "" )
      => SubmitKey(h1) # SubmitKey(h2)

\* C15: every transfer a real settlement executes debits payload.from and
\* credits payload.to with payload.amount; the facilitator's own account is
\* never the account debited, and what it holds is not changed.
C15_NonCustodialSettlement ==
  [][ (req.op = "none" /\ req'.op = "settle"
         /\ resp'.eff.tx.submitted /\ resp'.eff.tx.executed)
        => LET tx      == resp'.eff.tx
               payload == req'.body.paymentHeader.json.payload
               network == req'.body.paymentHeader.json.network
               own     == AccountOf(tx.ledger, FacilitatorAddressFor(config, network))
           IN /\ tx.src = AccountOf(tx.ledger, payload.from)
              /\ tx.dst = AccountOf(tx.ledger, payload.to)
              /\ tx.amount = payload.amount
              /\ tx.src # own
              /\ ledger'.balances[tx.ledger][own] = ledger.balances[tx.ledger][own] ]_vars

\* C16: on Radius /verify answers isValid = true only for a payload that
\* carries a raw signed transaction whose destination, value and chain id are
\* payload.to, payload.amount and the Radius chain id; a Radius proof without
\* a pre-signed transaction, or with one that differs, is never accepted.
C16_RadiusNeedsMatchingSignedTransaction ==
  (req.op = "verify" /\ resp.body.isValid = TRUE /\ LedgerOf(ReqNetwork) = "radius")
    => /\ Has(PaymentData.payload, "signedTransaction")
       /\ LET parsedTx == parseTransaction(PaymentData.payload.signedTransaction)
          IN /\ ~parsedTx.throws
             /\ AccountOf("radius", parsedTx.to) = AccountOf("radius", PaymentData.payload.to)
             /\ parsedTx.value = PaymentData.payload.amount
             /\ parsedTx.chainId = RadiusChainId

\* C17: when the payment header cannot be decoded (it is missing or is not
\* JSON), /verify answers HTTP 500 with isValid false, payer 'unknown' and a
\* non-empty invalidReason, and /settle answers HTTP 500 with success false,
\* payer 'unknown', transaction '', network 'unknown' and a non-empty
\* errorReason.
C17_DecodeFailureAnswers500 ==
  (req.op \in {"verify", "settle"} /\ DecodeThrows(req.body.paymentHeader))
    => /\ resp.status = 500
       /\ req.op = "verify" =>
            /\ resp.body.isValid = FALSE
            /\ resp.body.payer = "unknown"
            /\ IsText(resp.body.invalidReason) /\ resp.body.invalidReason.text # << >>
       /\ req.op = "settle" =>
            /\ resp.body.success = FALSE
            /\ resp.body.payer = "unknown"
            /\ resp.body.transaction = Text(<< >>)
            /\ resp.body.network = "unknown"
            /\ IsText(resp.body.errorReason) /\ resp.body.errorReason.text # << >>

\* /settle has answered a request whose header is not JSON.
C17_Witness ==
  /\ req.op = "settle" /\ req.body.paymentHeader = BadHeader
  /\ resp.status = 500 /\ resp.body.network = "unknown"

\* C18: a header that decodes to JSON lacking one of the top-level members
\* scheme, network, payload is answered as an internal error with an HTTP 5xx
\* status, never with HTTP 200 and an invalid or failed result.
C18_MissingFieldAnswers5xx ==
  ( /\ req.op \in {"verify", "settle"} /\ Readable
    /\ ~({"scheme", "network", "payload"} \subseteq DOMAIN PaymentData) )
    => resp.status >= 500

\* C19: /settle of a proof whose payload.to is not a valid address fails in
\* real and in simulated mode alike: success false, a non-empty errorReason,
\* transaction '', payer payload.from and network the proof's network.
C19_InvalidRecipientFailsSettle ==
  ( /\ req.op = "settle" /\ Readable /\ IsExactScheme(PaymentData) /\ HasPayload
    /\ ReqNetwork \in NetworkNames
    /\ ~isAddress(PaymentData.payload.to) )
    => /\ resp.body.success = FALSE
       /\ Has(resp.body, "errorReason")
       /\ IsText(resp.body.errorReason) /\ resp.body.errorReason.text # << >>
       /\ resp.body.transaction = Text(<< >>)
       /\ resp.body.payer = PaymentData.payload.from
       /\ resp.body.network = PaymentData.network

\* C20: the network member of every successful /settle result is one of the
\* names radius-testnet, base, base-sepolia, solana-mainnet-beta, never a
\* numeric chain id written as a string.
C20_SettledNetworkIsAName ==
  (req.op = "settle" /\ resp.body.success = TRUE)
    => /\ resp.body.network \in NetworkNames
       /\ resp.body.network \notin ChainIdNames

\* C21: /premium-data returns the premium data only after /verify answered
\* isValid = true and then /settle answered success = true for the same
\* X-PAYMENT header; /settle is called only after a /verify that passed; a
\* request without X-PAYMENT is answered 402 with the payment requirements
\* and no facilitator call.
C21_PremiumOnlyAfterPayment ==
  premium.pc \in {"verifying", "settling", "done"}
    => /\ (premium.pc = "done" /\ premium.response.status = 200)
            => /\ Len(premium.calls) = 2
               /\ premium.calls[1].op = "verify"
               /\ premium.calls[1].result.isValid = TRUE
               /\ premium.calls[1].paymentHeader = premium.xPayment
               /\ premium.calls[2].op = "settle"
               /\ premium.calls[2].result.success = TRUE
               /\ premium.calls[2].paymentHeader = premium.xPayment
       /\ \A i \in DOMAIN premium.calls :
            premium.calls[i].op = "settle"
              => /\ i > 1
                 /\ premium.calls[i - 1].op = "verify"
                 /\ premium.calls[i - 1].status = 200
                 /\ premium.calls[i - 1].result.isValid = TRUE
       /\ (premium.pc = "done" /\ premium.xPayment = NoXPayment)
            => /\ premium.response = PaymentRequired(premium.config)
               /\ premium.calls = << >>

\* The premium data has been returned for a payment on Base that was
\* verified and then settled on the chain.
C21_Witness ==
  /\ premium.pc = "done" /\ premium.response.status = 200
  /\ premium.response.body.tier = "premium"
  /\ config.realSettlement
  /\ Len(premium.calls) = 2 /\ premium.calls[2].result.transaction = TransactionHash

\* C22: every /verify and /settle request is eventually answered, also when
\* the balance query, the submission or the confirmation wait it awaits
\* never returns.
C22_EveryRequestAnswered ==
  \A h \in Handlers :
    (handlers[h].pc \in {"querying", "submitting"}) ~> (handlers[h].pc = "responding")

\* verify.ts: the chain id verifyPayment puts in the domain for a network.
DomainChainId(cfg, network) ==
  IF network \in {"base-sepolia", "84532"} THEN BaseSepoliaChainId
  ELSE IF network \in {"base", "8453"} THEN cfg.baseChainId
  ELSE cfg.radiusChainId

\* The request is checked by typed data: an 'exact' proof for Base, Base
\* Sepolia or Radius that carries no pre-signed transaction.
TypedDataVerification ==
  /\ req.op = "verify" /\ Readable /\ IsExactScheme(PaymentData) /\ HasPayload
  /\ LedgerOf(ReqNetwork) \in {"base", "base-sepolia", "radius"}
  /\ PaymentData.payload.signedTransaction.kind = "none"
  /\ PaymentData.payload.signature.kind = "eip712"

\* The signature of the request is payload.from's over the payload's five
\* fields, whatever its domain.
SignatureOfPayer ==
  LET sig == PaymentData.payload.signature
      payload == PaymentData.payload
  IN /\ Lower(sig.signer) = Lower(payload.from)
     /\ Lower(sig.from) = Lower(payload.from) /\ Lower(sig.to) = Lower(payload.to)
     /\ sig.amount = payload.amount /\ sig.nonce = payload.nonce
     /\ sig.deadline = payload.deadline

\* /verify has rejected the request at its signature check.
SignatureRejected ==
  /\ resp.body.isValid = FALSE
  /\ resp.body.invalidReason \in { Text(<<"Invalid", "signature">>),
                                   Text(<<"Signature", "verification", "failed">>) }

\* C23: the typed-data domain /verify reconstructs is bound to the
\* facilitator address configured for the proof's network, never to the
\* payee: a signature over a domain whose verifyingContract is the payee's
\* address is rejected, and payload.from's signature over the
\* facilitator-bound domain (with the chain id /verify binds for the
\* network) passes the signature check.
C23_DomainBoundToFacilitator ==
  TypedDataVerification
    => LET sig == PaymentData.payload.signature
           own == FacilitatorAddressFor(config, ReqNetwork)
       IN /\ (Lower(sig.vc) = Lower(PaymentData.payload.to) /\ Lower(sig.vc) # Lower(own))
               => SignatureRejected
          /\ ( /\ own # "" /\ Lower(sig.vc) = Lower(own)
               /\ sig.chainId = DomainChainId(config, ReqNetwork)
               /\ SignatureOfPayer )
               => ~SignatureRejected

\* /verify has rejected, for its signature, a proof that payload.from signed
\* under a domain bound to the payee, with a facilitator address configured.
C23_Witness ==
  /\ TypedDataVerification /\ SignatureOfPayer
  /\ FacilitatorAddressFor(config, ReqNetwork) # ""
  /\ PaymentData.payload.signature.vc = PaymentData.payload.to
  /\ PaymentData.payload.to = MerchantAddr
  /\ PaymentData.payload.signature.chainId = DomainChainId(config, ReqNetwork)
  /\ resp.body.invalidReason = Text(<<"Invalid", "signature">>)

\* C24: decoding the header that encoding a well-formed proof produced
\* yields a proof equal to it in every field, and encoding what was decoded
\* yields that header again.
C24_CodecRoundTrip ==
  req.op = "decode"
    => /\ resp.decoded = req.proof
       /\ resp.reencoded = req.header

\* A Base proof with a two-digit amount and a two-digit nonce has been
\* encoded to a padded header and decoded.
C24_Witness ==
  /\ req.op = "decode"
  /\ req.header.pad > 0
  /\ req.proof.obj[3][2] = JsStr(<<"base">>)
  /\ Len(req.proof.obj[4][2].obj) = 6
  /\ resp.decoded.obj[4][2].obj[3] = <<"amount", JsStr(<<"1", "0">>)>>
  /\ resp.decoded.obj[4][2].obj[4] = <<"nonce", JsNum(12)>>

\* C25: a /settle made after the deadline of its proof (now > deadline)
\* submits no transfer and does not answer success = true, on any ledger.
C25_NoSettlementAfterExpiry ==
  ( /\ req.op = "settle" /\ Readable /\ HasPayload
    /\ req.at > PaymentData.payload.deadline )
    => /\ ~resp.eff.tx.submitted
       /\ resp.body.success = FALSE


\* C26: when /verify accepts a proof, it rejects every proof that differs
\* from it in exactly one of from, to, amount, nonce, deadline and carries
\* the same signature or pre-signed transaction; the payer it reports, when
\* it reports one, is the account that produced the authorization.
C26_AuthorizationBindsAllFields ==
  LET payload == PaymentData.payload
      l == LedgerOf(ReqNetwork)
      \* The request with one payload field replaced, everything else (the
      \* signature, the pre-signed transaction, the requirement) as it is.
      WithField(f, v) == [ req.body EXCEPT !.paymentHeader.json.payload[f] = v ]
      \* The values a payload field can be changed to.
      OtherValues(f) ==
        CASE f \in {"from", "to"} ->
               { a \in Addresses : AccountOf(l, a) # AccountOf(l, payload[f]) }
          [] f = "amount" -> (1..(MaxAmount + 1)) \ {payload.amount}
          [] f = "nonce" -> (1..2) \ {payload.nonce}
          [] f = "deadline" -> (0..(MaxDeadline + 1)) \ {payload.deadline}
      \* The account that produced the authorization /verify checked.
      AuthorizedBy ==
        IF l = "radius" /\ payload.signedTransaction.kind # "none"
        THEN payload.signedTransaction.signer ELSE payload.signature.signer
  IN
  (req.op = "verify" /\ resp.body.isValid = TRUE)
    => /\ \A f \in {"from", "to", "amount", "nonce", "deadline"} :
            \A v \in OtherValues(f) :
              verifyPayment(config, WithField(f, v), req.at, ledger.balances,
                            req.rpcOk).body.isValid = FALSE
       /\ Has(resp.body, "payer")
            => AccountOf(LedgerOf(ReqNetwork), resp.body.payer)
                 = AccountOf(LedgerOf(ReqNetwork), AuthorizedBy)

\* C27: in real mode /settle answers success = true only for a transfer the
\* ledger executed: when the transaction it submitted was included but
\* reverted, it answers success = false with the failure in errorReason.
C27_RevertedNeverSucceeds ==
  \A h \in Handlers :
    ( /\ handlers[h].pc = "responding" /\ Has(handlers[h], "receipt")
      /\ handlers[h].receipt = "reverted" )
      => /\ handlers[h].reply.body.success = FALSE
         /\ Has(handlers[h].reply.body, "errorReason")
         /\ handlers[h].reply.body.errorReason.text # << >>


C29_SignaturesSeparatedByChain ==
  LET \* The request in hand with its proof naming the other Base network.
      OnOtherBaseNetwork ==
        [ req.body EXCEPT !.paymentHeader.json.network =
                            IF PaymentData.network = "base" THEN "base-sepolia" ELSE "base" ]
  IN
  ( /\ req.op = "verify" /\ Readable /\ Has(PaymentData, "network")
    /\ PaymentData.network \in {"base", "base-sepolia"}
    /\ resp.body.isValid = TRUE )
    => /\ verifyPayment(config, OnOtherBaseNetwork, req.at, ledger.balances,
                        req.rpcOk).body.isValid = FALSE
       /\ DomainChainId(config, ReqNetwork) = ChainIdOf(ReqNetwork)


\* C30: every /settle response has no member other than success, payer,
\* transaction, network and errorReason. A success carries a non-empty
\* transaction, the payer payload.from and the network of the proof; a
\* failure carries the transaction '' and a non-empty errorReason.
C30_SettleResponseShape ==
  LET \* A JSON string with at least one character.
      NonEmptyString(v) ==
        \/ ("text" \in DOMAIN v /\ v.text # << >>)
        \/ ("encoding" \in DOMAIN v /\ v.bytes > 0)
  IN
  req.op = "settle"
    => /\ DOMAIN resp.body \subseteq {"success", "payer", "transaction", "network", "errorReason"}
       /\ Has(resp.body, "success")
       /\ resp.body.success = TRUE
            => /\ Has(resp.body, "transaction") /\ NonEmptyString(resp.body.transaction)
               /\ Has(resp.body, "payer") /\ HasPayload
               /\ resp.body.payer = PaymentData.payload.from
               /\ Has(resp.body, "network") /\ Has(PaymentData, "network")
               /\ resp.body.network = PaymentData.network
       /\ resp.body.success = FALSE
            => /\ Has(resp.body, "transaction") /\ resp.body.transaction = Text(<< >>)
               /\ Has(resp.body, "errorReason") /\ IsText(resp.body.errorReason)
               /\ resp.body.errorReason.text # << >>

\* A real settlement answered with the hash of its transaction.
C30_Witness ==
  /\ req.op = "settle" /\ Readable /\ HasPayload
  /\ config.realSettlement
  /\ resp.body.success = TRUE
  /\ resp.eff.tx.submitted
  /\ resp.body.transaction \in {TransactionHash, TransactionSignature}
  /\ resp.body.payer = PaymentData.payload.from

====
